---- MODULE Spec2Model ----
(***************************************************************************)
(* Block index (mapBlockIndex), active chain (chainActive) and the         *)
(* getchaintips query of rpcblockchain.cpp.                                 *)
(*                                                                         *)
(* A CBlockIndex* is a positive integer; NULL is 0.  Pointers are handed   *)
(* out in allocation order.  CompareBlocksByHeight only compares pointers  *)
(* of nodes of equal height, such nodes are never ancestors of one another *)
(* and may be inserted in either order, so every relative pointer order    *)
(* the comparator can observe is reachable.                                *)
(***************************************************************************)
EXTENDS Integers, Sequences, FiniteSets, TLC

(* ------------------------------ bounds --------------------------------- *)

MaxNodes == 4

MaxHeight == 2

MaxValidated == 1

(* the index size explored where the calls bring much state of their own *)
MaxFewNodes == 3

(* ----------------------------- constants ------------------------------- *)

NULL == 0

BLOCK_VALID_UNKNOWN == 0

BLOCK_VALID_TREE == 2

BLOCK_VALID_SCRIPTS == 5

ValidLevels == {BLOCK_VALID_UNKNOWN, BLOCK_VALID_TREE, BLOCK_VALID_SCRIPTS}

Pointers == 1..MaxNodes

Hashes == 1..MaxNodes

(* nStatus (failed bits, validity level) and nChainTx of a node *)
StatusValues == [failed : BOOLEAN, nValid : ValidLevels, nChainTx : 0..1]

(* status of a header that was accepted and not validated any further *)
HeaderStatus == [failed |-> FALSE, nValid |-> BLOCK_VALID_TREE, nChainTx |-> 0]

NoReply == [op |-> "none"]

(* nobody holds cs_main *)
Free == [holder |-> "none"]

(* no invalidateblock / reconsiderblock call is past its locked section *)
Idle == [op |-> "none"]

(* 0x1d00ffff, the compact form of the minimum-difficulty target *)
MainPowLimit == 29 * 2^24 + 65535

(* ------------------------------- state --------------------------------- *)

VARIABLES
    blocks,         \* the CBlockIndex objects: pointer -> fields
    mapBlockIndex,  \* hash -> pointer
    vChain,         \* chainActive: vChain[h + 1] is the node at height h
    running,        \* FALSE once the process has died
    reply,          \* what the last RPC call returned
    powLimit,       \* Params().GetConsensus().powLimit in compact form
    nBits,          \* the nBits the headers of the index carry
    call,           \* the invalidateblock / reconsiderblock call past its locked section
    cs_main         \* the query that holds the lock and what it has read so far

vars == <<blocks, mapBlockIndex, vChain, running, reply, powLimit, nBits, call, cs_main>>

(* ------------------------- CBlockIndex fields -------------------------- *)

Stored == {mapBlockIndex[h] : h \in DOMAIN mapBlockIndex}

nHeight(p) == blocks[p].nHeight

pprev(p) == blocks[p].pprev

GetBlockHash(p) == blocks[p].hash

BlockFailed(p) == blocks[p].failed

nChainTx(p) == blocks[p].nChainTx

IsValid(p, nUpTo) == (~blocks[p].failed) /\ blocks[p].nValid >= nUpTo

(* ------------------------------ CChain --------------------------------- *)

Height == Len(vChain) - 1

Tip == IF Len(vChain) = 0 THEN NULL ELSE vChain[Len(vChain)]

At(h) == IF h < 0 \/ h > Height THEN NULL ELSE vChain[h + 1]

Contains(p) == At(nHeight(p)) = p

RECURSIVE GetAncestor(_, _)
GetAncestor(p, h) ==
    IF h > nHeight(p) \/ h < 0 THEN NULL
    ELSE IF nHeight(p) = h THEN p
    ELSE GetAncestor(pprev(p), h)

RECURSIVE WalkToChain(_)
WalkToChain(p) ==
    IF p = NULL \/ Contains(p) THEN p ELSE WalkToChain(pprev(p))

(* FindFork that starts the walk at the parent *)
FindFork_FromParent(p) ==
    IF p = NULL THEN NULL ELSE WalkToChain(pprev(p))

FindFork(p) ==
    IF p = NULL THEN NULL
    ELSE WalkToChain(IF nHeight(p) > Height THEN GetAncestor(p, Height) ELSE p)

(* the path genesis .. p, as SetTip lays it out *)
RECURSIVE PathTo(_)
PathTo(p) == IF p = NULL THEN <<>> ELSE Append(PathTo(pprev(p)), p)

(* ----------------------- CompareBlocksByHeight ------------------------- *)

(* the comparator without the pointer tie-break *)
CompareBlocksByHeight_NoTieBreak(a, b) == nHeight(a) > nHeight(b)

CompareBlocksByHeight(a, b) ==
    IF nHeight(a) # nHeight(b) THEN nHeight(a) > nHeight(b) ELSE a < b

(* std::set<const CBlockIndex*, CompareBlocksByHeight> as its in-order    *)
(* sequence; two keys are the same key when neither orders before the     *)
(* other.                                                                  *)
Equivalent(a, b) == ~CompareBlocksByHeight(a, b) /\ ~CompareBlocksByHeight(b, a)

SetInsert(s, x) ==
    IF \E i \in 1..Len(s) : Equivalent(s[i], x) THEN s
    ELSE LET k == Cardinality({i \in 1..Len(s) : CompareBlocksByHeight(s[i], x)})
         IN  SubSeq(s, 1, k) \o <<x>> \o SubSeq(s, k + 1, Len(s))

SetErase(s, x) == SelectSeq(s, LAMBDA e : ~Equivalent(e, x))

(* --------------------------- getchaintips ------------------------------ *)

(* mapBlockIndex is a hash table: the order in which BOOST_FOREACH visits  *)
(* it is not fixed by the program.  Two orders are modelled.               *)
RECURSIVE HashesAscending(_)
HashesAscending(H) ==
    IF H = {} THEN <<>>
    ELSE LET m == CHOOSE x \in H : \A y \in H : x <= y
         IN  <<m>> \o HashesAscending(H \ {m})

Reverse(s) == [i \in 1..Len(s) |-> s[Len(s) + 1 - i]]

IterOrders == {HashesAscending(DOMAIN mapBlockIndex),
               Reverse(HashesAscending(DOMAIN mapBlockIndex))}

(* first loop: setTips.insert(item.second) for every item *)
RECURSIVE InsertAll(_, _, _)
InsertAll(s, order, i) ==
    IF i > Len(order) THEN s
    ELSE InsertAll(SetInsert(s, mapBlockIndex[order[i]]), order, i + 1)

(* second loop: setTips.erase(pprev) for every item with a pprev; no item  *)
(* of the modelled map has a null second.                                  *)
RECURSIVE EraseParents(_, _, _)
EraseParents(s, order, i) ==
    IF i > Len(order) THEN s
    ELSE LET item == mapBlockIndex[order[i]]
             prev == IF item # NULL THEN pprev(item) ELSE NULL
         IN  EraseParents(IF prev # NULL THEN SetErase(s, prev) ELSE s,
                          order, i + 1)

(* setTips after setTips.insert(chainActive.Tip()), for a non-null tip *)
BuildSetTips(order) ==
    SetInsert(EraseParents(InsertAll(<<>>, order, 1), order, 1), Tip)

TipStatus(block) ==
    IF Contains(block) THEN "active"
    ELSE IF BlockFailed(block) THEN "invalid"
    ELSE IF nChainTx(block) = 0 THEN "headers-only"
    ELSE IF IsValid(block, BLOCK_VALID_SCRIPTS) THEN "valid-fork"
    ELSE IF IsValid(block, BLOCK_VALID_TREE) THEN "valid-headers"
    ELSE "unknown"

(* the fork looked up for the parent of the tip *)
ForkOf_FromParent(block) == FindFork(pprev(block))

ForkOf(block) == FindFork(block)

(* the branch length measured from the active height *)
BranchLen_FromActiveHeight(block, forked) == Height - nHeight(forked)

BranchLen(block, forked) == nHeight(block) - nHeight(forked)

(* the body of the output loop: one obj *)
TipObj(block) ==
    LET obj    == [height |-> nHeight(block), hash |-> GetBlockHash(block)]
        forked == ForkOf(block)
    IN  IF forked # NULL
        THEN obj @@ [branchlen |-> BranchLen(block, forked),
                     status |-> TipStatus(block)]
        ELSE obj

(* the inner BOOST_FOREACH over setTips: its block is the one the body sees *)
RECURSIVE InnerLoop(_, _)
InnerLoop(setTips, j) ==
    IF j > Len(setTips) THEN <<>>
    ELSE <<TipObj(setTips[j])>> \o InnerLoop(setTips, j + 1)

(* the outer BOOST_FOREACH over setTips: its statement is the inner loop *)
RECURSIVE OuterLoop(_, _)
OuterLoop(setTips, i) ==
    IF i > Len(setTips) THEN <<>>
    ELSE InnerLoop(setTips, 1) \o OuterLoop(setTips, i + 1)

(* With no active tip the call inserts a null pointer into setTips and     *)
(* reads nHeight through it: the process dies, or the read yields some     *)
(* value and a reply built from it goes out.                               *)
GarbageReplies ==
    {[op |-> "getchaintips", setTips |-> <<NULL>>, res |-> r] :
        r \in {<<>>} \cup {<<[height |-> g, hash |-> NULL]>> : g \in 0..MaxHeight}}

(* the call that erases the parents from the index itself *)
getchaintips_PrunesIndex ==
    /\ running
    /\ IF Tip = NULL
       THEN \/ running' = FALSE /\ reply' = NoReply
            \/ running' = running /\ reply' \in GarbageReplies
       ELSE /\ \E order \in IterOrders :
                 LET setTips == BuildSetTips(order)
                 IN  reply' = [op |-> "getchaintips", setTips |-> setTips,
                               res |-> OuterLoop(setTips, 1)]
            /\ running' = running
    /\ mapBlockIndex' =
           [h \in {g \in DOMAIN mapBlockIndex :
                      \/ mapBlockIndex[g] = Tip
                      \/ ~\E q \in Stored : pprev(q) = mapBlockIndex[g]}
               |-> mapBlockIndex[h]]
    /\ UNCHANGED <<cs_main, powLimit, nBits, call, blocks, vChain>>

getchaintips ==
    /\ running
    /\ IF Tip = NULL
       THEN \/ running' = FALSE /\ reply' = NoReply
            \/ running' = running /\ reply' \in GarbageReplies
       ELSE /\ \E order \in IterOrders :
                 LET setTips == BuildSetTips(order)
                 IN  reply' = [op |-> "getchaintips", setTips |-> setTips,
                               res |-> OuterLoop(setTips, 1)]
            /\ running' = running
    /\ UNCHANGED <<cs_main, powLimit, nBits, call, blocks, mapBlockIndex, vChain>>

(* --------------------------- the validator ----------------------------- *)

(* the header accepted with the height of its parent *)
AddToBlockIndex_FlatHeight(hash, parent) ==
    /\ running
    /\ Cardinality(DOMAIN blocks) < MaxNodes
    /\ hash \notin DOMAIN mapBlockIndex
    /\ \A h \in Hashes \ DOMAIN mapBlockIndex : hash <= h
    /\ parent = NULL \/ (parent \in Stored /\ nHeight(parent) < MaxHeight)
    /\ LET pindexNew == Cardinality(DOMAIN blocks) + 1
       IN  /\ blocks' = blocks @@ (pindexNew :>
                 [hash |-> hash, pprev |-> parent,
                  nHeight |-> IF parent = NULL THEN 0 ELSE nHeight(parent),
                  failed |-> HeaderStatus.failed,
                  nValid |-> HeaderStatus.nValid,
                  nChainTx |-> HeaderStatus.nChainTx])
           /\ mapBlockIndex' = mapBlockIndex @@ (hash :> pindexNew)
    /\ reply' = NoReply
    /\ UNCHANGED <<cs_main, powLimit, nBits, call, vChain, running>>

(* a header is accepted into the index: genesis, or a child of a stored    *)
(* node; the hash is a fresh key (hashes are opaque, the least unused one  *)
(* stands for any)                                                         *)
AddToBlockIndex(hash, parent) ==
    /\ running
    /\ Cardinality(DOMAIN blocks) < MaxNodes
    /\ hash \notin DOMAIN mapBlockIndex
    /\ \A h \in Hashes \ DOMAIN mapBlockIndex : hash <= h
    /\ parent = NULL \/ (parent \in Stored /\ nHeight(parent) < MaxHeight)
    /\ LET pindexNew == Cardinality(DOMAIN blocks) + 1
       IN  /\ blocks' = blocks @@ (pindexNew :>
                 [hash |-> hash, pprev |-> parent,
                  nHeight |-> IF parent = NULL THEN 0 ELSE nHeight(parent) + 1,
                  failed |-> HeaderStatus.failed,
                  nValid |-> HeaderStatus.nValid,
                  nChainTx |-> HeaderStatus.nChainTx])
           /\ mapBlockIndex' = mapBlockIndex @@ (hash :> pindexNew)
    /\ reply' = NoReply
    /\ UNCHANGED <<cs_main, powLimit, nBits, call, vChain, running>>

StatusOf(b) == [failed |-> b.failed, nValid |-> b.nValid, nChainTx |-> b.nChainTx]

FieldsChanged(s, t) ==
    Cardinality({f \in {"failed", "nValid", "nChainTx"} : s[f] # t[f]})

(* validation progresses (or fails) on a stored node: the validator sets   *)
(* the failed bits, the validity level or nChainTx of the node             *)
SetBlockStatus(p, s) ==
    /\ running
    /\ p \in Stored
    /\ FieldsChanged(s, StatusOf(blocks[p])) = 1
    /\ blocks' = [blocks EXCEPT ![p].failed = s.failed, ![p].nValid = s.nValid,
                                ![p].nChainTx = s.nChainTx]
    /\ Cardinality({q \in DOMAIN blocks' : StatusOf(blocks'[q]) # HeaderStatus})
           <= MaxValidated
    /\ reply' = NoReply
    /\ UNCHANGED <<cs_main, powLimit, nBits, call, mapBlockIndex, vChain, running>>

(* the chain update that only ever appends the new tip *)
SetTip_AppendOnly(p) ==
    /\ running
    /\ p \in Stored
    /\ p # Tip
    /\ vChain' = Append(vChain, p)
    /\ reply' = NoReply
    /\ UNCHANGED <<cs_main, powLimit, nBits, call, blocks, mapBlockIndex, running>>

(* best-chain selection moves the active chain to end at a stored node *)
SetTip(p) ==
    /\ running
    /\ p \in Stored
    /\ p # Tip
    /\ vChain' = PathTo(p)
    /\ reply' = NoReply
    /\ UNCHANGED <<cs_main, powLimit, nBits, call, blocks, mapBlockIndex, running>>

(* ------------------------- BlockIndexStore ----------------------------- *)

(* the previous-hash a genesis header declares *)
ZeroHash == 0

(* the integrity test that does not look at the declared previous hash *)
InsertError_ParentUnchecked(hash, hashPrev) ==
    IF hash \in DOMAIN mapBlockIndex THEN "DuplicateHash" ELSE "none"

(* the integrity test of insert: the hash is new, the declared previous    *)
(* hash is the zero hash or the hash of a stored node                      *)
InsertError(hash, hashPrev) ==
    IF hash \in DOMAIN mapBlockIndex THEN "DuplicateHash"
    ELSE IF hashPrev # ZeroHash /\ hashPrev \notin DOMAIN mapBlockIndex
    THEN "UnknownParent"
    ELSE "none"

(* the node a declared previous hash resolves to *)
LookupParent(hashPrev) ==
    IF hashPrev \in DOMAIN mapBlockIndex THEN mapBlockIndex[hashPrev] ELSE NULL

InsertFailure(e) == [op |-> "insert", error |-> e]

(* BlockIndexStore.insert: the header is refused with an explicit error,   *)
(* or it is accepted into the index                                        *)
insert(hash, hashPrev) ==
    IF InsertError(hash, hashPrev) # "none"
    THEN /\ running
         /\ reply = NoReply
         /\ reply' = InsertFailure(InsertError(hash, hashPrev))
         /\ UNCHANGED <<cs_main, powLimit, nBits, call, blocks, mapBlockIndex, vChain, running>>
    ELSE AddToBlockIndex(hash, LookupParent(hashPrev))

(* ------------------------------ queries -------------------------------- *)

(* the reply of the last call has gone out to the client *)
Deliver ==
    /\ running
    /\ reply # NoReply
    /\ reply' = NoReply
    /\ UNCHANGED <<cs_main, powLimit, nBits, call, blocks, mapBlockIndex, vChain, running>>

(* CChain::Next *)
ChainNext(p) == IF Contains(p) THEN At(nHeight(p) + 1) ELSE NULL

(* mapBlockIndex.count(hash) *)
MapCount(hash) == IF hash \in DOMAIN mapBlockIndex THEN 1 ELSE 0

(* the range test that lets the tip height itself fall out of range *)
HeightOutOfRange_TipExcluded(index) == index < 0 \/ index >= Height

(* the range test that rejects the genesis height *)
HeightOutOfRange_NonPositive(index) == index <= 0 \/ index > Height

(* nHeight < 0 || nHeight > chainActive.Height() *)
HeightOutOfRange(index) == index < 0 \/ index > Height

(* confirmations counted without the block itself *)
Confirmations_NoPlusOne(blockindex) ==
    IF Contains(blockindex) THEN Height - nHeight(blockindex) ELSE -1

(* confirmations given to any block whose height the active chain has *)
Confirmations_ByHeight(blockindex) ==
    IF At(nHeight(blockindex)) # NULL
    THEN Height - nHeight(blockindex) + 1 ELSE -1

(* int confirmations = -1; if (chainActive.Contains(blockindex)) ... *)
Confirmations(blockindex) ==
    IF Contains(blockindex) THEN Height - nHeight(blockindex) + 1 ELSE -1

(* the successor taken by height alone *)
NextOf_ByHeight(blockindex) == At(nHeight(blockindex) + 1)

(* CBlockIndex *pnext = chainActive.Next(blockindex) *)
NextOf(blockindex) == ChainNext(blockindex)

(* the fields both reports share; version, merkleroot, time, nonce,        *)
(* solution, bits, difficulty and chainwork are passed through from the    *)
(* header and are not carried here                                         *)
ReportFields(blockindex) ==
    LET obj   == [hash |-> GetBlockHash(blockindex),
                  confirmations |-> Confirmations(blockindex),
                  height |-> nHeight(blockindex)]
        prev  == pprev(blockindex)
        pnext == NextOf(blockindex)
        obj2  == IF prev # NULL
                 THEN obj @@ [previousblockhash |-> GetBlockHash(prev)]
                 ELSE obj
    IN  IF pnext # NULL
        THEN obj2 @@ [nextblockhash |-> GetBlockHash(pnext)]
        ELSE obj2

blockheaderToJSON(blockindex) == ReportFields(blockindex)

(* the block read from disk is the block of blockindex; its transactions   *)
(* are opaque                                                              *)
blockToJSON(blockindex) == ReportFields(blockindex) @@ [tx |-> "vtx"]

(* the hex serialization of a header or block stands for itself *)
HexOf(what, blockindex) == [hex |-> what, of |-> GetBlockHash(blockindex)]

getblockhash(index) ==
    /\ running
    /\ reply = NoReply
    /\ reply' = IF HeightOutOfRange(index)
                THEN [op |-> "getblockhash", error |-> "Block height out of range"]
                ELSE [op |-> "getblockhash",
                      result |-> GetBlockHash(At(index))]
    /\ UNCHANGED <<cs_main, powLimit, nBits, call, blocks, mapBlockIndex, vChain, running>>

(* return chainActive.Height() *)
getblockcount ==
    /\ running
    /\ reply = NoReply
    /\ reply' = [op |-> "getblockcount", result |-> Height]
    /\ UNCHANGED <<cs_main, blocks, mapBlockIndex, vChain, running, powLimit, nBits, call>>

(* what a read through a null CBlockIndex pointer may give as a hash *)
GarbageHashes == Hashes \cup {NULL}

(* return chainActive.Tip()->GetBlockHash().GetHex(): with no active tip   *)
(* the call reads through a null pointer, the process dies or some value   *)
(* goes out as the hash                                                    *)
getbestblockhash ==
    /\ running
    /\ reply = NoReply
    /\ IF Tip = NULL
       THEN \/ running' = FALSE /\ reply' = NoReply
            \/ /\ running' = running
               /\ \E g \in GarbageHashes :
                      reply' = [op |-> "getbestblockhash", result |-> g]
       ELSE /\ running' = running
            /\ reply' = [op |-> "getbestblockhash", result |-> GetBlockHash(Tip)]
    /\ UNCHANGED <<cs_main, blocks, mapBlockIndex, vChain, powLimit, nBits, call>>

getblockheader(hash, fVerbose) ==
    /\ running
    /\ reply = NoReply
    /\ reply' = IF MapCount(hash) = 0
                THEN [op |-> "getblockheader", error |-> "Block not found"]
                ELSE LET pblockindex == mapBlockIndex[hash]
                     IN  [op |-> "getblockheader",
                          result |-> IF ~fVerbose
                                     THEN HexOf("header", pblockindex)
                                     ELSE blockheaderToJSON(pblockindex)]
    /\ UNCHANGED <<cs_main, powLimit, nBits, call, blocks, mapBlockIndex, vChain, running>>

(* the first parameter of getblock: a string of digits shorter than a      *)
(* hash, a hash, or a short string that is not all digits                  *)
GetBlockArgs ==
    [kind : {"height"}, n : 0..(MaxHeight + 1)]
        \cup [kind : {"hash"}, n : Hashes]
        \cup {[kind |-> "junk", n |-> 0]}

(* what the block files give for a stored block *)
DiskOutcomes == {"ok", "pruned", "unreadable"}

getblock(arg, fVerbose, disk) ==
    /\ running
    /\ reply = NoReply
    /\ reply' =
         IF arg.kind = "junk"
         THEN [op |-> "getblock", error |-> "Invalid block height parameter"]
         ELSE IF arg.kind = "height" /\ HeightOutOfRange(arg.n)
         THEN [op |-> "getblock", error |-> "Block height out of range"]
         ELSE LET hash == IF arg.kind = "height"
                          THEN GetBlockHash(At(arg.n)) ELSE arg.n
              IN  IF MapCount(hash) = 0
                  THEN [op |-> "getblock", error |-> "Block not found"]
                  ELSE IF disk = "pruned"
                  THEN [op |-> "getblock",
                        error |-> "Block not available (pruned data)"]
                  ELSE IF disk = "unreadable"
                  THEN [op |-> "getblock", error |-> "Can't read block from disk"]
                  ELSE LET pblockindex == mapBlockIndex[hash]
                       IN  [op |-> "getblock",
                            result |-> IF ~fVerbose
                                       THEN HexOf("block", pblockindex)
                                       ELSE blockToJSON(pblockindex)]
    /\ UNCHANGED <<cs_main, powLimit, nBits, call, blocks, mapBlockIndex, vChain, running>>

(* ----------------------------- difficulty ------------------------------ *)

(* compact targets: 0x1d00ffff, 0x1f07ffff, 0x207fffff as minimum-         *)
(* difficulty targets; these and 0x1c00ffff, 0x1e00ffff, 0x1d00fffe,       *)
(* 0x1b0404cb as the targets of headers                                    *)
PowLimits == {29 * 2^24 + 65535, 31 * 2^24 + 524287, 32 * 2^24 + 8388607}

CompactValues ==
    PowLimits \cup {28 * 2^24 + 65535, 30 * 2^24 + 65535, 29 * 2^24 + 65534,
                    27 * 2^24 + 263371}

RECURSIVE GCD(_, _)
GCD(a, b) == IF b = 0 THEN a ELSE GCD(b, a % b)

RECURSIVE OddPart(_)
OddPart(n) == IF n % 2 = 0 THEN OddPart(n \div 2) ELSE n

RECURSIVE Twos(_)
Twos(n) == IF n % 2 = 0 THEN 1 + Twos(n \div 2) ELSE 0

(* A double is kept as (num / den) * 2^exp2 with num and den odd and       *)
(* coprime, so that two doubles are equal iff their records are.  The      *)
(* quotient of two integers below 2^24 is rounded to 53 bits; two such     *)
(* quotients round to the same double only if they are equal, and with     *)
(* exponent bytes below 0x80 no product or quotient by 256 leaves the      *)
(* range in which it is exact.                                             *)
DoubleOne == [kind |-> "finite", num |-> 1, den |-> 1, exp2 |-> 0]

(* (double)num / (double)den *)
DoubleQuotient(num, den) ==
    IF den = 0
    THEN [kind |-> IF num = 0 THEN "nan" ELSE "inf", num |-> 0, den |-> 0, exp2 |-> 0]
    ELSE IF num = 0
    THEN [kind |-> "finite", num |-> 0, den |-> 1, exp2 |-> 0]
    ELSE LET g == GCD(num, den)
             n == num \div g
             d == den \div g
         IN  [kind |-> "finite", num |-> OddPart(n), den |-> OddPart(d),
              exp2 |-> Twos(n) - Twos(d)]

(* the product by 16 *)
Times256_Sixteen(x) ==
    IF x.kind = "finite" /\ x.num # 0 THEN [x EXCEPT !.exp2 = @ + 4] ELSE x

(* dDiff *= 256.0 *)
Times256(x) == IF x.kind = "finite" /\ x.num # 0 THEN [x EXCEPT !.exp2 = @ + 8] ELSE x

(* dDiff /= 256.0 *)
Over256(x) == IF x.kind = "finite" /\ x.num # 0 THEN [x EXCEPT !.exp2 = @ - 8] ELSE x

(* while (nShift < nShiftAmount) { dDiff *= 256.0; nShift++; } *)
RECURSIVE ScaleUp(_, _)
ScaleUp(loop, nShiftAmount) ==
    IF loop.nShift < nShiftAmount
    THEN ScaleUp([dDiff |-> Times256(loop.dDiff), nShift |-> loop.nShift + 1,
                  steps |-> loop.steps + 1], nShiftAmount)
    ELSE loop

(* while (nShift > nShiftAmount) { dDiff /= 256.0; nShift--; } *)
RECURSIVE ScaleDown(_, _)
ScaleDown(loop, nShiftAmount) ==
    IF loop.nShift > nShiftAmount
    THEN ScaleDown([dDiff |-> Over256(loop.dDiff), nShift |-> loop.nShift - 1,
                    steps |-> loop.steps + 1], nShiftAmount)
    ELSE loop

(* from uint32_t powLimit = ... to the end of the second loop *)
DifficultyLoops(bits, limit) ==
    LET nShift       == (bits \div 2^24) % 256
        nShiftAmount == (limit \div 2^24) % 256
        dDiff        == DoubleQuotient(limit % 2^24, bits % 2^24)
    IN  ScaleDown(ScaleUp([dDiff |-> dDiff, nShift |-> nShift, steps |-> 0],
                          nShiftAmount),
                  nShiftAmount)

(* the bits taken from the next required work in either mode *)
BitsOf_AlwaysNextWork(blockindex, networkDifficulty, nextWork) == nextWork

(* bits: GetNextWorkRequired(blockindex, ...) or blockindex->nBits;        *)
(* nextWork is what GetNextWorkRequired gives                              *)
BitsOf(blockindex, networkDifficulty, nextWork) ==
    IF networkDifficulty THEN nextWork ELSE nBits

(* the difficulty computed from the bits with no regard to an empty chain *)
GetDifficultyINTERNAL_NoFallback(blockindex, networkDifficulty, nextWork) ==
    DifficultyLoops(BitsOf(blockindex, networkDifficulty, nextWork), powLimit).dDiff

GetDifficultyINTERNAL(blockindex, networkDifficulty, nextWork) ==
    IF blockindex = NULL /\ Tip = NULL
    THEN DoubleOne
    ELSE LET pindex == IF blockindex = NULL THEN Tip ELSE blockindex
         IN  DifficultyLoops(BitsOf(pindex, networkDifficulty, nextWork),
                             powLimit).dDiff

GetDifficulty(blockindex, nextWork) ==
    /\ running
    /\ reply = NoReply
    /\ blockindex \in Stored \cup {NULL}
    /\ reply' = [op |-> "GetDifficulty",
                 result |-> GetDifficultyINTERNAL(blockindex, FALSE, nextWork)]
    /\ UNCHANGED <<cs_main, blocks, mapBlockIndex, vChain, running, powLimit, nBits, call>>

GetNetworkDifficulty(blockindex, nextWork) ==
    /\ running
    /\ reply = NoReply
    /\ blockindex \in Stored \cup {NULL}
    /\ reply' = [op |-> "GetNetworkDifficulty",
                 result |-> GetDifficultyINTERNAL(blockindex, TRUE, nextWork)]
    /\ UNCHANGED <<cs_main, blocks, mapBlockIndex, vChain, running, powLimit, nBits, call>>

(* the getdifficulty call: return GetNetworkDifficulty() *)
getdifficulty(nextWork) ==
    /\ running
    /\ reply = NoReply
    /\ reply' = [op |-> "getdifficulty",
                 result |-> GetDifficultyINTERNAL(NULL, TRUE, nextWork)]
    /\ UNCHANGED <<cs_main, blocks, mapBlockIndex, vChain, running, powLimit, nBits, call>>

(* ------------------ invalidateblock / reconsiderblock ------------------ *)

(* q is pindex or descends from it *)
DescendsFrom(q, pindex) == GetAncestor(q, nHeight(pindex)) = pindex

NotHeaderStatus(bs) == {q \in DOMAIN bs : StatusOf(bs[q]) # HeaderStatus}

(* InvalidateBlock(state, pblockindex): the block is marked as failed; if  *)
(* the validation state stays valid the active chain no longer holds it    *)
InvalidateBlock(pindex, valid) ==
    /\ blocks' = [blocks EXCEPT ![pindex].failed = TRUE]
    /\ Cardinality(NotHeaderStatus(blocks')) <= MaxValidated
    /\ vChain' = IF valid /\ Contains(pindex)
                 THEN SubSeq(vChain, 1, nHeight(pindex))
                 ELSE vChain

(* ReconsiderBlock(state, pblockindex): removes the invalidity status of   *)
(* a block and its descendants                                             *)
ReconsiderBlock(pindex, valid) ==
    /\ blocks' = [q \in DOMAIN blocks |->
                    IF DescendsFrom(q, pindex)
                    THEN [blocks[q] EXCEPT !.failed = FALSE]
                    ELSE blocks[q]]
    /\ vChain' = vChain

(* the stored nodes a best chain may end at: nothing failed on the path,   *)
(* and not lower than the present tip                                      *)
BestChainCandidates ==
    {p \in Stored : /\ nHeight(p) >= Height
                    /\ \A i \in DOMAIN PathTo(p) : ~BlockFailed(PathTo(p)[i])}

(* ActivateBestChain(state): the active chain stays or moves to a          *)
(* candidate                                                               *)
ActivateBestChain ==
    \/ vChain' = vChain
    \/ \E p \in BestChainCandidates : vChain' = PathTo(p)

(* the call that lets the call go on past a hash that is not in the index *)
invalidateblock_NoReturn(hash, valid) ==
    /\ running
    /\ reply = NoReply
    /\ call = Idle
    /\ IF MapCount(hash) = 0
       THEN /\ reply' = [op |-> "invalidateblock", error |-> "Block not found"]
            /\ call' = [op |-> "invalidateblock", valid |-> valid]
            /\ UNCHANGED <<cs_main, blocks, vChain>>
       ELSE LET pblockindex == mapBlockIndex[hash]
            IN  /\ InvalidateBlock(pblockindex, valid)
                /\ call' = [op |-> "invalidateblock", valid |-> valid]
                /\ reply' = reply
    /\ UNCHANGED <<cs_main, mapBlockIndex, running, powLimit, nBits>>

(* invalidateblock up to the end of its locked section *)
invalidateblock(hash, valid) ==
    /\ running
    /\ reply = NoReply
    /\ call = Idle
    /\ IF MapCount(hash) = 0
       THEN /\ reply' = [op |-> "invalidateblock", error |-> "Block not found"]
            /\ call' = Idle
            /\ UNCHANGED <<cs_main, blocks, vChain>>
       ELSE LET pblockindex == mapBlockIndex[hash]
            IN  /\ InvalidateBlock(pblockindex, valid)
                /\ call' = [op |-> "invalidateblock", valid |-> valid]
                /\ reply' = reply
    /\ UNCHANGED <<cs_main, mapBlockIndex, running, powLimit, nBits>>

(* reconsiderblock up to the end of its locked section *)
reconsiderblock(hash, valid) ==
    /\ running
    /\ reply = NoReply
    /\ call = Idle
    /\ IF MapCount(hash) = 0
       THEN /\ reply' = [op |-> "reconsiderblock", error |-> "Block not found"]
            /\ call' = Idle
            /\ UNCHANGED <<cs_main, blocks, vChain>>
       ELSE LET pblockindex == mapBlockIndex[hash]
            IN  /\ ReconsiderBlock(pblockindex, valid)
                /\ call' = [op |-> "reconsiderblock", valid |-> valid]
                /\ reply' = reply
    /\ UNCHANGED <<cs_main, mapBlockIndex, running, powLimit, nBits>>

(* the rest of the call with ActivateBestChain run whatever the mark step  *)
(* left in the validation state                                            *)
ActivateAndReturn_Always(valid) ==
    /\ running
    /\ reply = NoReply
    /\ call # Idle
    /\ ActivateBestChain
    /\ reply' = IF call.valid /\ valid
                THEN [op |-> call.op, result |-> "null"]
                ELSE [op |-> call.op, error |-> "RPC_DATABASE_ERROR"]
    /\ call' = Idle
    /\ UNCHANGED <<cs_main, blocks, mapBlockIndex, running, powLimit, nBits>>

(* the rest of invalidateblock / reconsiderblock, past the locked section: *)
(* if (state.IsValid()) ActivateBestChain(state); if (!state.IsValid())    *)
(* throw; return NullUniValue.  valid is what ActivateBestChain leaves in  *)
(* the validation state.                                                   *)
ActivateAndReturn(valid) ==
    /\ running
    /\ reply = NoReply
    /\ call # Idle
    /\ IF call.valid
       THEN /\ ActivateBestChain
            /\ reply' = IF valid
                        THEN [op |-> call.op, result |-> "null"]
                        ELSE [op |-> call.op, error |-> "RPC_DATABASE_ERROR"]
       ELSE /\ vChain' = vChain
            /\ reply' = [op |-> call.op, error |-> "RPC_DATABASE_ERROR"]
    /\ call' = Idle
    /\ UNCHANGED <<cs_main, blocks, mapBlockIndex, running, powLimit, nBits>>

(* ----------------------- queries, read by read ------------------------ *)

(* the writer that changes index and chain without taking the lock *)
ValidatorHoldsLock_Never == TRUE

(* the validator changes the index and the chain under cs_main *)
ValidatorHoldsLock == cs_main = Free

(* getblockheader from LOCK(cs_main) to the confirmations read in          *)
(* blockheaderToJSON                                                       *)
HeaderBegin(hash) ==
    /\ running
    /\ reply = NoReply
    /\ cs_main = Free
    /\ MapCount(hash) # 0
    /\ LET pblockindex == mapBlockIndex[hash]
       IN  cs_main' = [holder |-> "getblockheader", pblockindex |-> pblockindex,
                       confirmations |-> Confirmations(pblockindex)]
    /\ UNCHANGED <<blocks, mapBlockIndex, vChain, running, reply, powLimit, nBits, call>>

(* the rest of blockheaderToJSON, up to the return that releases cs_main *)
HeaderEnd ==
    /\ running
    /\ cs_main.holder = "getblockheader"
    /\ reply' = [op |-> "getblockheader",
                 result |-> [ReportFields(cs_main.pblockindex)
                                EXCEPT !.confirmations = cs_main.confirmations]]
    /\ cs_main' = Free
    /\ UNCHANGED <<blocks, mapBlockIndex, vChain, running, powLimit, nBits, call>>

(* getchaintips from LOCK(cs_main) to the complete setTips *)
TipsBegin ==
    /\ running
    /\ reply = NoReply
    /\ cs_main = Free
    /\ Tip # NULL
    /\ \E order \in IterOrders :
           cs_main' = [holder |-> "getchaintips", setTips |-> BuildSetTips(order)]
    /\ UNCHANGED <<blocks, mapBlockIndex, vChain, running, reply, powLimit, nBits, call>>

(* the output loops of getchaintips, up to the return that releases        *)
(* cs_main                                                                 *)
TipsEnd ==
    /\ running
    /\ cs_main.holder = "getchaintips"
    /\ reply' = [op |-> "getchaintips", setTips |-> cs_main.setTips,
                 res |-> OuterLoop(cs_main.setTips, 1)]
    /\ cs_main' = Free
    /\ UNCHANGED <<blocks, mapBlockIndex, vChain, running, powLimit, nBits, call>>

(* -------------------------- specification ------------------------------ *)

Init ==
    /\ blocks = <<>>
    /\ mapBlockIndex = <<>>
    /\ vChain = <<>>
    /\ running = TRUE
    /\ reply = NoReply
    /\ powLimit = MainPowLimit
    /\ nBits = MainPowLimit
    /\ call = Idle
    /\ cs_main = Free

Next ==
    \/ \E hash \in Hashes, parent \in Pointers \cup {NULL} : AddToBlockIndex(hash, parent)
    \/ \E p \in Pointers, s \in StatusValues : SetBlockStatus(p, s)
    \/ \E p \in Pointers : SetTip(p)
    \/ getchaintips

Spec == Init /\ [][Next]_vars

(* The index and the chain alone: headers are accepted and the active      *)
(* chain moves, validation never goes past header acceptance.  setTips,    *)
(* FindFork and branchlen read pprev, nHeight and chainActive only, never  *)
(* nStatus or nChainTx.                                                    *)
NextIndex ==
    \/ \E hash \in Hashes, parent \in Pointers \cup {NULL} : AddToBlockIndex(hash, parent)
    \/ \E p \in Pointers : SetTip(p)
    \/ getchaintips

SpecIndex == Init /\ [][NextIndex]_vars

(* The index, the chain and the calls that report on single blocks *)
NextQuery ==
    \/ \E hash \in Hashes, parent \in Pointers \cup {NULL} : AddToBlockIndex(hash, parent)
    \/ \E p \in Pointers : SetTip(p)
    \/ \E index \in (-1)..(MaxHeight + 1) : getblockhash(index)
    \/ \E hash \in Hashes, fVerbose \in BOOLEAN : getblockheader(hash, fVerbose)
    \/ \E arg \in GetBlockArgs, fVerbose \in BOOLEAN, disk \in DiskOutcomes :
           getblock(arg, fVerbose, disk)
    \/ Deliver

SpecQuery == Init /\ [][NextQuery]_vars

(* The store under insertion attempts of every kind, and the chain *)
NextStore ==
    \/ \E hash \in Hashes, hashPrev \in Hashes \cup {ZeroHash} : insert(hash, hashPrev)
    \/ \E p \in Pointers : SetTip(p)
    \/ Deliver

SpecStore == Init /\ [][NextStore]_vars

(* The index, the chain, the calls that look a block up by its hash *)
NextAdmin ==
    \/ /\ Cardinality(DOMAIN blocks) < MaxFewNodes
       /\ \E hash \in Hashes, parent \in Pointers \cup {NULL} :
              AddToBlockIndex(hash, parent)
    \/ \E p \in Pointers : SetTip(p)
    \/ \E hash \in Hashes, valid \in BOOLEAN : invalidateblock(hash, valid)
    \/ \E hash \in Hashes, valid \in BOOLEAN : reconsiderblock(hash, valid)
    \/ \E valid \in BOOLEAN : ActivateAndReturn(valid)
    \/ \E hash \in Hashes, fVerbose \in BOOLEAN : getblockheader(hash, fVerbose)
    \/ \E arg \in GetBlockArgs, fVerbose \in BOOLEAN, disk \in DiskOutcomes :
           getblock(arg, fVerbose, disk)
    \/ Deliver

SpecAdmin == Init /\ [][NextAdmin]_vars

(* The difficulty calls over every minimum-difficulty target and every     *)
(* header target, on a small index                                         *)
(* (the header mode never reads the next required work, one value of it   *)
(* gives every step of GetDifficulty)                                      *)
InitDifficulty ==
    /\ blocks = <<>>
    /\ mapBlockIndex = <<>>
    /\ vChain = <<>>
    /\ running = TRUE
    /\ reply = NoReply
    /\ powLimit \in PowLimits
    /\ nBits \in CompactValues
    /\ call = Idle
    /\ cs_main = Free

NextDifficulty ==
    \/ /\ Cardinality(DOMAIN blocks) < MaxFewNodes
       /\ \E hash \in Hashes, parent \in Pointers \cup {NULL} :
              AddToBlockIndex(hash, parent)
    \/ \E p \in Pointers : SetTip(p)
    \/ \E blockindex \in Pointers \cup {NULL}, nextWork \in {MainPowLimit} :
           GetDifficulty(blockindex, nextWork)
    \/ \E blockindex \in Pointers \cup {NULL}, nextWork \in CompactValues :
           GetNetworkDifficulty(blockindex, nextWork)
    \/ \E nextWork \in CompactValues : getdifficulty(nextWork)
    \/ Deliver

SpecDifficulty == InitDifficulty /\ [][NextDifficulty]_vars

(* The index, the chain and every call that only reads them *)
NextReads ==
    \/ \E hash \in Hashes, parent \in Pointers \cup {NULL} : AddToBlockIndex(hash, parent)
    \/ \E p \in Pointers : SetTip(p)
    \/ getchaintips
    \/ getblockcount
    \/ getbestblockhash
    \/ \E index \in (-1)..(MaxHeight + 1) : getblockhash(index)
    \/ \E hash \in Hashes, fVerbose \in BOOLEAN : getblockheader(hash, fVerbose)
    \/ \E nextWork \in CompactValues : getdifficulty(nextWork)
    \/ Deliver

SpecReads == Init /\ [][NextReads]_vars

(* The index and the chain under the validator, and two queries taken     *)
(* read by read                                                            *)
NextLock ==
    \/ /\ ValidatorHoldsLock
       /\ \E hash \in Hashes, parent \in Pointers \cup {NULL} :
              AddToBlockIndex(hash, parent)
    \/ /\ ValidatorHoldsLock
       /\ \E p \in Pointers : SetTip(p)
    \/ \E hash \in Hashes : HeaderBegin(hash)
    \/ HeaderEnd
    \/ TipsBegin
    \/ TipsEnd
    \/ Deliver

SpecLock == Init /\ [][NextLock]_vars

(* ------------------------- derived notions ----------------------------- *)

SeqToSet(s) == {s[i] : i \in DOMAIN s}

(* stored nodes that no stored node declares as parent *)
Leaves == {p \in Stored : ~\E q \in Stored : pprev(q) = p}

(* a getchaintips reply computed with an active tip, for the current state *)
Replied == reply.op = "getchaintips" /\ Tip # NULL

NodeOf(obj) == mapBlockIndex[obj.hash]

HasField(obj, f) == f \in DOMAIN obj

ActiveEntries == {i \in DOMAIN reply.res :
                     HasField(reply.res[i], "status") /\ reply.res[i].status = "active"}

(* headers at heights 0,1,2 on the active chain and one more height-2      *)
(* header on the shared height-1 node                                      *)
ForkScenario ==
    /\ Len(vChain) = 3
    /\ Cardinality(Stored) = 4
    /\ \E c \in Stored \ SeqToSet(vChain) : pprev(c) = vChain[2]

(* ------------------------------ claims --------------------------------- *)

(* C1: with a non-empty active chain, the list getchaintips returns holds  *)
(* exactly one entry of status "active", and it is the entry of            *)
(* chainActive.Tip().                                                      *)
C1_ExactlyOneActive ==
    Replied =>
        /\ Cardinality(ActiveEntries) = 1
        /\ \A i \in ActiveEntries : reply.res[i].hash = GetBlockHash(Tip)

(* C2: the list has one entry per member of setTips, no tip twice; in the  *)
(* fork scenario it has two entries, the active height-2 tip with          *)
(* branchlen 0 and the competing height-2 tip with branchlen 1.            *)
C2_OneEntryPerTip ==
    Replied =>
        /\ Len(reply.res) = Len(reply.setTips)
        /\ \A i, j \in DOMAIN reply.res :
               i # j => reply.res[i].hash # reply.res[j].hash
        /\ ForkScenario =>
               /\ Len(reply.res) = 2
               /\ \E i, j \in DOMAIN reply.res :
                      /\ reply.res[i] = [height |-> 2, hash |-> GetBlockHash(Tip),
                                         branchlen |-> 0, status |-> "active"]
                      /\ reply.res[j].hash # GetBlockHash(Tip)
                      /\ reply.res[j].height = 2
                      /\ HasField(reply.res[j], "branchlen")
                      /\ reply.res[j].branchlen = 1

(* C3: the tip set getchaintips computes is the set of stored nodes that  *)
(* no stored node declares as parent, together with chainActive.Tip(); the *)
(* active tip is a member also when a stored node has it as parent.        *)
C3_TipSet ==
    Replied =>
        /\ SeqToSet(reply.setTips) = Leaves \cup {Tip}
        /\ Len(reply.setTips) = Cardinality(Leaves \cup {Tip})

(* C3 witness: a reply for a store where the active tip has a child and    *)
(* two leaves share a height                                               *)
C3_Witness ==
    /\ Replied
    /\ Tip \notin Leaves
    /\ Tip \in SeqToSet(reply.setTips)
    /\ \E a, b \in Leaves : a # b /\ nHeight(a) = nHeight(b)

(* C4: every tip gets exactly one status, by the first rule that matches   *)
(* in the order active, invalid, headers-only, valid-fork, valid-headers,  *)
(* unknown; active iff the tip is chainActive.Tip().                       *)
C4_Classification ==
    Replied =>
        \A i \in DOMAIN reply.res :
            LET obj == reply.res[i]
                t   == NodeOf(obj)
                b   == blocks[t]
            IN  /\ HasField(obj, "status")
                /\ obj.status = "active" <=> t = Tip
                /\ t # Tip =>
                     /\ obj.status = "invalid" <=> b.failed
                     /\ ~b.failed =>
                          /\ obj.status = "headers-only" <=> b.nChainTx = 0
                          /\ b.nChainTx # 0 =>
                               /\ obj.status = "valid-fork"
                                      <=> b.nValid >= BLOCK_VALID_SCRIPTS
                               /\ obj.status = "valid-headers"
                                      <=> (b.nValid >= BLOCK_VALID_TREE
                                           /\ b.nValid < BLOCK_VALID_SCRIPTS)
                               /\ obj.status = "unknown"
                                      <=> b.nValid < BLOCK_VALID_TREE

(* C5: every entry of the reply carries height, hash, branchlen and status *)
C5_AllFourFields ==
    Replied =>
        \A i \in DOMAIN reply.res :
            DOMAIN reply.res[i] = {"height", "hash", "branchlen", "status"}

(* C6: a reported status is one of active, valid-fork, valid-headers,      *)
(* headers-only, invalid                                                   *)
C6_DocumentedStatus ==
    Replied =>
        \A i \in DOMAIN reply.res :
            HasField(reply.res[i], "status") =>
                reply.res[i].status \in {"active", "valid-fork", "valid-headers",
                                         "headers-only", "invalid"}

(* C7: the entries come in descending height; CompareBlocksByHeight is a   *)
(* strict total order on the nodes, so no equal-height tip is dropped.     *)
C7_DescendingTotalOrder ==
    /\ \A a, b \in Stored :
           a # b => (CompareBlocksByHeight(a, b) <=> ~CompareBlocksByHeight(b, a))
    /\ \A a \in Stored : ~CompareBlocksByHeight(a, a)
    /\ Replied =>
           /\ \A i, j \in DOMAIN reply.res :
                  i < j => reply.res[i].height >= reply.res[j].height
           /\ Leaves \subseteq SeqToSet(reply.setTips)

(* C8: the branchlen reported for a tip is the height of the tip minus    *)
(* the height of the node FindFork returns for it.                         *)
C8_BranchLength ==
    Replied =>
        \A i \in DOMAIN reply.res :
            LET obj == reply.res[i]
                t   == NodeOf(obj)
            IN  FindFork(t) # NULL =>
                    /\ HasField(obj, "branchlen")
                    /\ obj.branchlen = nHeight(t) - nHeight(FindFork(t))

(* C8 witness: a reply with a tip two blocks off the active chain whose    *)
(* height differs from the active height                                   *)
C8_Witness ==
    /\ Replied
    /\ \E i \in DOMAIN reply.res :
           /\ HasField(reply.res[i], "branchlen")
           /\ reply.res[i].branchlen = 2
           /\ reply.res[i].height # Height

(* C9: FindFork of the active tip is the active tip, and the branchlen     *)
(* reported for the active tip is 0.                                       *)
C9_ForkOfTip ==
    Tip # NULL =>
        /\ FindFork(Tip) = Tip
        /\ Replied =>
               /\ \E i \in DOMAIN reply.res : reply.res[i].hash = GetBlockHash(Tip)
               /\ \A i \in DOMAIN reply.res :
                      reply.res[i].hash = GetBlockHash(Tip) =>
                          /\ HasField(reply.res[i], "branchlen")
                          /\ reply.res[i].branchlen = 0

(* C9 witness: a reply for an active chain of three nodes *)
C9_Witness ==
    /\ Replied
    /\ Len(vChain) = 3
    /\ \E i \in DOMAIN reply.res : reply.res[i].hash = GetBlockHash(Tip)

(* the nodes on the path from the root of n to n *)
AncestorsOrSelf(n) == SeqToSet(PathTo(n))

(* the nodes that sit in the active chain at their own height *)
OnActiveChain == {p \in Stored : \E i \in DOMAIN vChain :
                                     i = nHeight(p) + 1 /\ vChain[i] = p}

TreeOf(n) == {m \in Stored : PathTo(m)[1] = PathTo(n)[1]}

(* C10: FindFork(n) is the highest ancestor-or-self of n that is on the    *)
(* active chain at its own height; it is NULL only when the tree of n      *)
(* shares no node with the active chain.                                   *)
C10_FindFork ==
    \A n \in Stored :
        LET common == AncestorsOrSelf(n) \cap OnActiveChain
        IN  /\ common # {} =>
                /\ FindFork(n) \in common
                /\ \A c \in common : nHeight(c) <= nHeight(FindFork(n))
            /\ common = {} => FindFork(n) = NULL
            /\ FindFork(n) = NULL => TreeOf(n) \cap SeqToSet(vChain) = {}

(* C10 witness: a node above the active height forks off the active chain  *)
(* below the active tip                                                    *)
C10_Witness ==
    /\ Tip # NULL
    /\ \E n \in Stored :
           /\ nHeight(n) > Height
           /\ FindFork(n) \notin {NULL, n, Tip}

(* a verbose report (getblockheader or getblock) is the current reply *)
Reported ==
    /\ reply.op \in {"getblockheader", "getblock"}
    /\ HasField(reply, "result")
    /\ HasField(reply.result, "confirmations")

(* C11: a node is contained in the active chain iff it is the very node    *)
(* the chain holds at the node's height; a side-branch node of the same    *)
(* height as an active node is not contained, and is reported as such.     *)
C11_ContainsIdentity ==
    /\ \A n \in Stored :
           /\ Contains(n) <=> (\E i \in DOMAIN vChain : vChain[i] = n)
           /\ (\E m \in SeqToSet(vChain) : m # n /\ nHeight(m) = nHeight(n))
                  => ~Contains(n)
    /\ Reported =>
           (reply.result.confirmations = -1
                <=> NodeOf(reply.result) \notin SeqToSet(vChain))

(* C11 witness: a report on a side-branch node whose height the active     *)
(* chain also has                                                          *)
C11_Witness ==
    /\ Reported
    /\ NodeOf(reply.result) \notin SeqToSet(vChain)
    /\ reply.result.height <= Height
    /\ reply.result.confirmations = -1

(* C12: in the active chain the parent of the element at height h > 0 is   *)
(* the element at height h - 1, and the length is the tip height plus 1.   *)
C12_ChainLinked ==
    /\ \A i \in DOMAIN vChain : i > 1 => pprev(vChain[i]) = vChain[i - 1]
    /\ Tip # NULL => Len(vChain) = nHeight(Tip) + 1

(* C12 witness: a chain of three nodes next to a stored side branch of     *)
(* two nodes, which the chain can only have reached by replacement or      *)
(* by an extension after a roll back                                       *)
C12_Witness ==
    /\ Len(vChain) = 3
    /\ \E n \in Stored \ SeqToSet(vChain) : nHeight(n) >= 1

(* C13: the node at the active height is the active tip: getblockhash of   *)
(* chainActive.Height() answers with the hash of chainActive.Tip().        *)
C13_AtHeightIsTip ==
    [][(Tip # NULL /\ getblockhash(Height)) =>
           /\ At(Height) = Tip
           /\ reply'.op = "getblockhash"
           /\ HasField(reply', "result")
           /\ reply'.result = GetBlockHash(Tip)]_vars

(* C13 witness: getblockhash has answered with the hash of the tip of a    *)
(* chain of at least two nodes                                             *)
C13_Witness ==
    /\ reply.op = "getblockhash"
    /\ HasField(reply, "result")
    /\ Len(vChain) >= 2
    /\ reply.result = GetBlockHash(Tip)

OutOfRangeError(op) == [op |-> op, error |-> "Block height out of range"]

(* C14: a lookup by height fails with the out-of-range error iff the       *)
(* height is negative or above the tip height, and otherwise gives the     *)
(* active-chain node at that height.                                       *)
C14_OutOfRange ==
    [][/\ \A index \in (-1)..(MaxHeight + 1) :
              getblockhash(index) =>
                  IF index < 0 \/ index > Len(vChain) - 1
                  THEN reply' = OutOfRangeError("getblockhash")
                  ELSE /\ HasField(reply', "result")
                       /\ reply'.result = GetBlockHash(vChain[index + 1])
       /\ \A arg \in GetBlockArgs, fVerbose \in BOOLEAN, disk \in DiskOutcomes :
              (arg.kind = "height" /\ getblock(arg, fVerbose, disk)) =>
                  /\ reply' = OutOfRangeError("getblock")
                         <=> arg.n > Len(vChain) - 1
                  /\ (HasField(reply', "result") /\ fVerbose) =>
                         NodeOf(reply'.result) = vChain[arg.n + 1]]_vars

(* C14 witness: getblockhash has refused a height above the tip of a       *)
(* non-empty chain                                                         *)
C14_Witness ==
    /\ reply = OutOfRangeError("getblockhash")
    /\ Len(vChain) >= 1

(* C15: chainActive.Next(node) is the active node one above node when     *)
(* node is contained and is not the tip, and NULL otherwise; a report      *)
(* carries nextblockhash iff its block is on the active chain and is not   *)
(* the tip.                                                                *)
C15_NextOnChain ==
    /\ \A n \in Stored :
           ChainNext(n) = IF n \in SeqToSet(vChain) /\ n # Tip
                          THEN vChain[nHeight(n) + 2] ELSE NULL
    /\ Reported =>
           LET n == NodeOf(reply.result)
           IN  /\ HasField(reply.result, "nextblockhash")
                      <=> (n \in SeqToSet(vChain) /\ n # Tip)
               /\ HasField(reply.result, "nextblockhash") =>
                      reply.result.nextblockhash = GetBlockHash(vChain[nHeight(n) + 2])

(* C15 witness: a report with a nextblockhash while a side-branch node     *)
(* below the active height is stored                                       *)
C15_Witness ==
    /\ Reported
    /\ HasField(reply.result, "nextblockhash")
    /\ \E m \in Stored \ SeqToSet(vChain) : nHeight(m) < Height

(* C16: the confirmations of a report are -1 iff the block is off the      *)
(* active chain; otherwise they are active height - block height + 1,      *)
(* at least 1, and 1 exactly for the active tip.                           *)
C16_Confirmations ==
    Reported =>
        LET n == NodeOf(reply.result)
            c == reply.result.confirmations
        IN  /\ c = -1 <=> n \notin SeqToSet(vChain)
            /\ n \in SeqToSet(vChain) =>
                   /\ c = (Len(vChain) - 1) - nHeight(n) + 1
                   /\ c >= 1
                   /\ c = 1 <=> n = Tip

(* C16 witness: a report on the genesis of a chain of three nodes *)
C16_Witness ==
    /\ Reported
    /\ reply.result.confirmations = 3

(* C17: insert fails with DuplicateHash when the hash is already stored,   *)
(* and with UnknownParent when the declared previous hash is neither the   *)
(* zero hash nor a stored hash; a failed insert leaves the store as it     *)
(* was, a header that breaks either rule never enters the store, and no    *)
(* insert changes the active chain.                                        *)
C17_InsertFails ==
    [][\A hash \in Hashes, hashPrev \in Hashes \cup {ZeroHash} :
          insert(hash, hashPrev) =>
              LET dup    == hash \in DOMAIN mapBlockIndex
                  orphan == hashPrev # ZeroHash /\ hashPrev \notin DOMAIN mapBlockIndex
              IN  /\ dup => reply' = InsertFailure("DuplicateHash")
                  /\ (~dup /\ orphan) => reply' = InsertFailure("UnknownParent")
                  /\ (dup \/ orphan) =>
                         (blocks' = blocks /\ mapBlockIndex' = mapBlockIndex)
                  /\ (~dup /\ ~orphan) =>
                         /\ reply' = NoReply
                         /\ hash \in DOMAIN mapBlockIndex'
                         /\ blocks'[mapBlockIndex'[hash]].pprev = LookupParent(hashPrev)
                  /\ vChain' = vChain]_vars

(* C17 witness: an insert has just been refused for its unknown parent     *)
(* while the store holds nodes and the chain is not empty                  *)
C17_Witness ==
    /\ reply = InsertFailure("UnknownParent")
    /\ Cardinality(Stored) >= 2
    /\ Len(vChain) >= 1

(* C18: every stored node with a parent has the parent stored and is one   *)
(* higher than it; every node without a parent has height 0, and only      *)
(* such nodes have height 0.                                               *)
C18_HeightIsParentPlusOne ==
    \A n \in Stored :
        /\ pprev(n) # NULL =>
               /\ pprev(n) \in Stored
               /\ nHeight(n) = nHeight(pprev(n)) + 1
        /\ pprev(n) = NULL <=> nHeight(n) = 0

(* C18 witness: two genesis nodes and a node two above one of them *)
C18_Witness ==
    /\ Cardinality({n \in Stored : pprev(n) = NULL}) = 2
    /\ \E n \in Stored : nHeight(n) = 2 /\ pprev(pprev(n)) # NULL

NotFound(op) == [op |-> op, error |-> "Block not found"]

(* C19: getblockheader, getblock, invalidateblock and reconsiderblock      *)
(* answer 'Block not found' iff the hash is not in the index, and then     *)
(* the index, the chain and the calls in flight are as before: no node is  *)
(* created, no mark or activate step runs; with the hash in the index      *)
(* the report is on the node stored under it.                              *)
C19_BlockNotFound ==
    [][\A hash \in Hashes :
          LET absent    == hash \notin DOMAIN mapBlockIndex
              untouched == /\ blocks' = blocks
                           /\ mapBlockIndex' = mapBlockIndex
                           /\ vChain' = vChain
                           /\ call' = call
          IN  /\ (\E v \in BOOLEAN : getblockheader(hash, v)) =>
                     /\ reply' = NotFound("getblockheader") <=> absent
                     /\ absent => untouched
                     /\ (~absent /\ HasField(reply'.result, "hash")) =>
                            reply'.result.hash = hash
              /\ (\E v \in BOOLEAN, d \in DiskOutcomes :
                      getblock([kind |-> "hash", n |-> hash], v, d)) =>
                     /\ reply' = NotFound("getblock") <=> absent
                     /\ absent => untouched
              /\ (\E valid \in BOOLEAN : invalidateblock(hash, valid)) =>
                     /\ reply' = NotFound("invalidateblock") <=> absent
                     /\ absent => untouched
                     /\ ~absent => (call' # Idle /\ BlockFailed(mapBlockIndex[hash])')
              /\ (\E valid \in BOOLEAN : reconsiderblock(hash, valid)) =>
                     /\ reply' = NotFound("reconsiderblock") <=> absent
                     /\ absent => untouched
                     /\ ~absent => call' # Idle]_vars

(* C19 witness: invalidateblock has just answered 'Block not found' in an  *)
(* index that holds a block an earlier call has marked as failed           *)
C19_Witness ==
    /\ reply = NotFound("invalidateblock")
    /\ call = Idle
    /\ \E p \in Stored : BlockFailed(p)

(* C20: the difficulty of a node whose nBits equal the compact minimum-    *)
(* difficulty target is exactly 1.0, whatever that target is and whatever  *)
(* the next required work would be.                                        *)
C20_MinimumDifficultyIsOne ==
    [][\A blockindex \in Pointers, nextWork \in CompactValues :
          (GetDifficulty(blockindex, nextWork) /\ nBits = powLimit) =>
              reply'.result = DoubleOne]_vars

(* C20 witness: the difficulty of a node with nBits 0x1d00ffff has been    *)
(* computed against the minimum-difficulty target 0x1d00ffff               *)
C20_Witness ==
    /\ reply.op = "GetDifficulty"
    /\ reply.result = DoubleOne
    /\ Tip # NULL
    /\ nBits = MainPowLimit
    /\ powLimit = MainPowLimit

(* C21: the network difficulty asked for with no node on an empty active   *)
(* chain is the fixed value 1.0, whatever the next required work and the   *)
(* minimum-difficulty target are.                                          *)
C21_EmptyChainFallback ==
    [][\A nextWork \in CompactValues :
          ((getdifficulty(nextWork) \/ GetNetworkDifficulty(NULL, nextWork))
               /\ Tip = NULL) =>
              reply'.result = DoubleOne]_vars

(* C21 witness: getdifficulty has answered 1.0 on an empty chain while the *)
(* index holds headers whose target is not the minimum-difficulty target   *)
C21_Witness ==
    /\ reply = [op |-> "getdifficulty", result |-> DoubleOne]
    /\ Tip = NULL
    /\ Stored # {}
    /\ nBits # powLimit

StoredHashes == {GetBlockHash(p) : p \in Stored}

(* one of the calls that only read has run *)
ReadStep ==
    \/ getchaintips
    \/ getblockcount
    \/ getbestblockhash
    \/ \E index \in (-1)..(MaxHeight + 1) : getblockhash(index)
    \/ \E hash \in Hashes, fVerbose \in BOOLEAN : getblockheader(hash, fVerbose)
    \/ \E nextWork \in CompactValues : getdifficulty(nextWork)

(* C22: every call that only reads is total, the empty active chain        *)
(* included: after it the process runs, and its reply is an explicit       *)
(* error or a result in which every hash is the hash of a stored node.     *)
C22_QueriesTotal ==
    [][ReadStep =>
          /\ running'
          /\ reply'.op = "getbestblockhash" => reply'.result \in StoredHashes
          /\ reply'.op = "getchaintips" =>
                 \A i \in DOMAIN reply'.res : reply'.res[i].hash \in StoredHashes]_vars

(* C23: a call that only reads leaves the stored nodes, their parents,     *)
(* heights and status flags, and the active chain as they were, whether    *)
(* it answers with a result or with an error.                              *)
C23_ReadsChangeNothing ==
    [][ReadStep =>
          /\ blocks' = blocks
          /\ mapBlockIndex' = mapBlockIndex
          /\ vChain' = vChain]_vars

(* C23 witness: getchaintips has answered for an index with a fork and a   *)
(* chain of three nodes                                                    *)
C23_Witness ==
    /\ Replied
    /\ Len(vChain) = 3
    /\ Cardinality(Stored) = 4
    /\ Len(reply.res) >= 4

(* C24: a query holds cs_main from its first read to its last, so what it  *)
(* reports is what one state of index and chain gives: the report of       *)
(* getblockheader is the report of its block in the state the call ends    *)
(* in, confirmations and nextblockhash alike, and the reply of             *)
(* getchaintips is the set of tips, with every status and branchlen, of    *)
(* that state.                                                             *)
C24_OneSnapshot ==
    [][/\ HeaderEnd =>
              reply'.result = blockheaderToJSON(cs_main.pblockindex)
       /\ TipsEnd =>
              \E order \in IterOrders :
                  /\ reply'.setTips = BuildSetTips(order)
                  /\ reply'.res = OuterLoop(BuildSetTips(order), 1)]_vars

(* C24 witness: getblockheader has reported a nextblockhash for a block of *)
(* a chain that has a side branch                                          *)
C24_Witness ==
    /\ reply.op = "getblockheader"
    /\ HasField(reply.result, "nextblockhash")
    /\ reply.result.confirmations >= 2
    /\ \E m \in Stored : m \notin SeqToSet(vChain)

(* the exponent byte and the mantissa of a compact value *)
ExponentOf(compact) == compact \div 2^24

MantissaOf(compact) == compact % 2^24

Abs(n) == IF n < 0 THEN -n ELSE n

(* the double x is (a / b) * 2^shift: with num and den of x odd and        *)
(* coprime, a and b are one common multiple of num and den, the powers of  *)
(* two put on the side they belong to                                      *)
IsRatioTimesPower(x, a, b, shift) ==
    LET e == x.exp2 - shift
        n == IF e >= 0 THEN x.num * 2^e ELSE x.num
        d == IF e < 0 THEN x.den * 2^(-e) ELSE x.den
    IN  /\ x.kind = "finite"
        /\ Abs(e) <= 24
        /\ a % n = 0
        /\ b % d = 0
        /\ a \div n = b \div d

(* what the claim says of the difficulty of bits against limit *)
FollowsFormula(result, bits, limit) ==
    LET delta == ExponentOf(limit) - ExponentOf(bits)
        loops == DifficultyLoops(bits, limit)
    IN  /\ IsRatioTimesPower(result, MantissaOf(limit), MantissaOf(bits), 8 * delta)
        /\ loops.steps = Abs(delta)
        /\ loops.nShift = ExponentOf(limit)

(* C25: for bits with a non-zero mantissa the difficulty is                *)
(* (mantissa of powLimit / mantissa of bits) * 256^(exponent of powLimit - *)
(* exponent of bits), and the two loops take exactly the absolute          *)
(* difference of the exponents as their steps, in the header mode and in   *)
(* the network mode.                                                       *)
C25_DifficultyFormula ==
    [][\A blockindex \in Pointers \cup {NULL}, nextWork \in CompactValues :
          /\ (GetDifficulty(blockindex, nextWork)
                  /\ (blockindex # NULL \/ Tip # NULL)
                  /\ MantissaOf(nBits) # 0) =>
                 FollowsFormula(reply'.result, nBits, powLimit)
          /\ (GetNetworkDifficulty(blockindex, nextWork)
                  /\ (blockindex # NULL \/ Tip # NULL)
                  /\ MantissaOf(nextWork) # 0) =>
                 FollowsFormula(reply'.result, nextWork, powLimit)]_vars

(* C25 witness: the difficulty of 0x1b0404cb against 0x1d00ffff has been   *)
(* computed, 65535 / 263371 * 256^2                                        *)
C25_Witness ==
    /\ reply.op = "GetDifficulty"
    /\ Tip # NULL
    /\ nBits = 27 * 2^24 + 263371
    /\ powLimit = MainPowLimit
    /\ reply.result = [kind |-> "finite", num |-> 65535, den |-> 263371, exp2 |-> 16]

(* C26: invalidateblock and reconsiderblock look the block up and mark it  *)
(* in one locked step that answers nothing yet; the rest of the call runs  *)
(* ActivateBestChain iff the mark step left the validation state valid,    *)
(* and never changes chain or index after a failed mark step; the call     *)
(* ends with a database error iff the validation state is invalid at the   *)
(* end, and with null otherwise.                                           *)
C26_FixedSequence ==
    [][/\ \A hash \in DOMAIN mapBlockIndex, valid \in BOOLEAN :
              (invalidateblock(hash, valid) \/ reconsiderblock(hash, valid)) =>
                  /\ call = Idle
                  /\ call' # Idle
                  /\ call'.valid = valid
                  /\ reply' = NoReply
                  /\ blocks'[mapBlockIndex[hash]].failed = invalidateblock(hash, valid)
       /\ \A valid \in BOOLEAN :
              ActivateAndReturn(valid) =>
                  /\ call.valid => ActivateBestChain
                  /\ ~call.valid => vChain' = vChain
                  /\ blocks' = blocks
                  /\ call' = Idle
                  /\ reply' = IF call.valid /\ valid
                              THEN [op |-> call.op, result |-> "null"]
                              ELSE [op |-> call.op, error |-> "RPC_DATABASE_ERROR"]]_vars

(* C26 witness: invalidateblock has ended with a database error on a       *)
(* chain that still holds the block it marked as failed                    *)
C26_Witness ==
    /\ reply = [op |-> "invalidateblock", error |-> "RPC_DATABASE_ERROR"]
    /\ call = Idle
    /\ \E p \in SeqToSet(vChain) : BlockFailed(p)

(* C27: with every node of the active chain in the index, an entry of the  *)
(* reply has branchlen 0 iff its status is 'active', and every entry for   *)
(* a tip other than the active tip has a branchlen of at least 1 and a     *)
(* fork point on the active chain strictly below the tip.                  *)
C27_ZeroBranchIffActive ==
    (Replied /\ SeqToSet(vChain) \subseteq Stored) =>
        \A i \in DOMAIN reply.res :
            LET obj == reply.res[i]
                tip == NodeOf(obj)
            IN  /\ HasField(obj, "branchlen")
                /\ HasField(obj, "status")
                /\ obj.branchlen = 0 <=> obj.status = "active"
                /\ tip # Tip =>
                       /\ obj.branchlen >= 1
                       /\ FindFork(tip) # NULL
                       /\ Contains(FindFork(tip))
                       /\ nHeight(FindFork(tip)) < nHeight(tip)

====
